---- MODULE Spec2Model ----
(***************************************************************************)
(* Keyed hash forest (Khf): topology, nodes and the forest's operations    *)
(* derive / update / truncate / consolidate / commit.                      *)
(*                                                                         *)
(* Keys are symbolic: a key is the seed it was drawn as plus the sequence  *)
(* of positions hashed onto it, so the hash is a collision-free function   *)
(* of (key, level, index) and two keys are equal exactly when they are the *)
(* same hash chain over the same seed.  The CSPRNG is a counter: every     *)
(* draw yields a seed never drawn before.                                  *)
(***************************************************************************)
EXTENDS Integers, Sequences, FiniteSets, TLC

\* ------------------------------------------------------------------ bounds
\* Key ids handed to derive/update are 0 .. MaxKey-1; truncate and the
\* range bounds of consolidate take 0 .. MaxKey.
MaxKey == 5
\* Number of calls made on the forest in one run.
MaxCalls == 4
\* Number of those calls that may be consolidate calls.
MaxConsolidations == 1

\* Fanouts the forest is built with (Khf::new(&[2, 2], rng)).
Fanouts == <<2, 2>>

KeyIds == 0 .. (MaxKey - 1)

\* ---------------------------------------------------------------- helpers
RECURSIVE SeqProduct(_)
SeqProduct(s) == IF s = <<>> THEN 1 ELSE Head(s) * SeqProduct(Tail(s))

Max(a, b) == IF a >= b THEN a ELSE b

\* -------------------------------------------------------------- topology
\* Mutant of TopologyFill: leaves is divided before it is pushed.
RECURSIVE TopologyFill_late(_, _)
TopologyFill_late(fs, leaves) ==
    IF fs = <<>> THEN <<>>
    ELSE <<leaves \div Head(fs)>>
         \o TopologyFill_late(Tail(fs), leaves \div Head(fs))

\* Topology::new: descendants = [0, leaves, leaves/f1, ..., ] ++ [1].
RECURSIVE TopologyFill(_, _)
TopologyFill(fs, leaves) ==
    IF fs = <<>> THEN <<>>
    ELSE <<leaves>> \o TopologyFill(Tail(fs), leaves \div Head(fs))

Topology_new(fs) == <<0>> \o TopologyFill(fs, SeqProduct(fs)) \o <<1>>

\* The topology a forest, an iterator or a node derivation works in
\* (Khf::topology; the &Topology the iterators and Node::derive borrow).
VARIABLES topology

height == Len(topology)

\* descendants(level): Rust index level is TLA+ index level + 1.
descendants(level) == topology[level + 1]

start(node) == IF node[1] = 0 THEN 0 ELSE node[2] * descendants(node[1])

end(node) == IF node[1] = 0 THEN 0 ELSE start(node) + descendants(node[1])

range(node) == <<start(node), end(node)>>

offset(leaf, level) == IF level = 0 THEN 0 ELSE leaf \div descendants(level)

is_ancestor(n, m) ==
    LET nr == range(n)
        mr == range(m)
    IN  m # <<0, 0>> /\ (n = <<0, 0>> \/ (nr[1] <= mr[1] /\ mr[2] <= nr[2]))

leaf_position(leaf) == <<height - 1, leaf>>

\* Mutant of path: the index of to is taken for its first leaf.
RECURSIVE path_by_index(_, _)
path_by_index(from, to) ==
    IF from[1] < to[1]
    THEN LET level == from[1] + 1
             next  == <<level, offset(to[2], level)>>
         IN  <<next>> \o path_by_index(next, to)
    ELSE <<>>

\* Path iterator: positions from level from.0+1 down to to.0, each the
\* ancestor of start(to) at that level.
RECURSIVE path(_, _)
path(from, to) ==
    IF from[1] < to[1]
    THEN LET level == from[1] + 1
             next  == <<level, offset(start(to), level)>>
         IN  <<next>> \o path(next, to)
    ELSE <<>>

\* LeveledCoverage iterator, run to exhaustion.  phase is the State enum
\* (Pre(lvl) / Intra / Post(lvl)); s is self.start, e is self.end.
RECURSIVE LeveledCoverageFrom(_, _, _, _, _)
LeveledCoverageFrom(target, phase, lvl, s, e) ==
    IF s > e THEN <<>>
    ELSE IF phase = "Pre" THEN
        IF lvl < target + 1
        THEN LeveledCoverageFrom(target, "Intra", lvl, s, e)
        ELSE IF s % descendants(lvl - 1) # 0 /\ s + descendants(lvl) <= e
        THEN <<<<lvl, offset(s, lvl)>>>>
             \o LeveledCoverageFrom(target, "Pre", lvl, s + descendants(lvl), e)
        ELSE LeveledCoverageFrom(target, "Pre", lvl - 1, s, e)
    ELSE IF phase = "Intra" THEN
        IF s + descendants(target) <= e
        THEN <<<<target, offset(s, target)>>>>
             \o LeveledCoverageFrom(target, "Intra", lvl, s + descendants(target), e)
        ELSE LeveledCoverageFrom(target, "Post", target + 1, s, e)
    ELSE
        IF lvl >= height
        THEN <<>>
        ELSE IF s + descendants(lvl) <= e
        THEN <<<<lvl, offset(s, lvl)>>>>
             \o LeveledCoverageFrom(target, "Post", lvl, s + descendants(lvl), e)
        ELSE LeveledCoverageFrom(target, "Post", lvl + 1, s, e)

LeveledCoverage(level, s, e) ==
    LeveledCoverageFrom(level, "Pre", height - 1, s, e)

\* ------------------------------------------------------------------ node
\* Node::with_rng: a fresh seed at position (0,0).
Node_with_rng(seed) == [pos |-> <<0, 0>>, key |-> [seed |-> seed, path |-> <<>>]]

\* One hash step: H(key || level || index).
Hash(key, pos) == [seed |-> key.seed, path |-> Append(key.path, pos)]

RECURSIVE HashFold(_, _)
HashFold(key, ps) ==
    IF ps = <<>> THEN key ELSE HashFold(Hash(key, Head(ps)), Tail(ps))

\* Mutant of Node_derive: the path is walked from (0,0), not from the node.
Node_derive_from_top(node, pos) ==
    IF node.pos = pos THEN node.key
    ELSE HashFold(node.key, path(<<0, 0>>, pos))

Node_derive(node, pos) ==
    IF node.pos = pos THEN node.key ELSE HashFold(node.key, path(node.pos, pos))

RECURSIVE NodesAt(_, _)
NodesAt(node, ps) ==
    IF ps = <<>> THEN <<>>
    ELSE <<[pos |-> Head(ps), key |-> Node_derive(node, Head(ps))]>>
         \o NodesAt(node, Tail(ps))

Node_coverage(node, level, s, e) == NodesAt(node, LeveledCoverage(level, s, e))


\* ------------------------------------------------------------------- khf
VARIABLES
    appending_root,   \* Node: root that appended keys are derived from
    in_flight_keys,   \* u64: number of keys in flight
    updated_keys,     \* BTreeSet<u64>
    roots,            \* Vec<Node>
    keys,             \* u64: number of keys the forest provides
    cached_keys,      \* HashMap<u64, Key>: NoKey where the map has no entry
    rng,              \* the CSPRNG: number of seeds drawn so far
    panicked,         \* TRUE once a call has panicked (the run ends there)
    calls,            \* number of calls made so far
    consolidations,   \* number of consolidate calls made so far
    last,             \* history: the last call, [op, arg, ret, ok, pre, prev, trunc]
    epoch_ret,        \* history: first key each id returned since the last commit
    snap,             \* history: per id, the key of its last derive not followed by an update of it
    image,            \* the serialized forest, and what was observed of the calls made since
    iter              \* a coverage iterator in use: [level, start, end, state] and its history

vars == <<appending_root, in_flight_keys, updated_keys, roots, keys,
          cached_keys, rng, panicked, calls, consolidations, last, epoch_ret, snap,
          image, topology, iter>>

DEFAULT_ROOT_LEVEL == 1

NoKey == [seed |-> -1, path |-> <<>>]

NoSnap == [key |-> NoKey, beyond |-> FALSE, commits |-> 0]

\* roots.iter().position(|root| n < end(root.pos)), or with n <= end(root.pos)
\* when orEqual: the 1-based index of the first such root, 0 when there is
\* none (Iterator::position returning None).
position(rs, n, orEqual) ==
    LET hits == {i \in 1 .. Len(rs) :
                    n < end(rs[i].pos) \/ (orEqual /\ n = end(rs[i].pos))}
    IN  IF hits = {} THEN 0 ELSE CHOOSE i \in hits : \A j \in hits : i <= j

fragmentation == Len(roots)

IsConsolidated(rs) == Len(rs) = 1 /\ rs[1].pos = <<0, 0>>

is_consolidated == IsConsolidated(roots)

\* The comparator handed to binary_search_by in derive_key.
RootOrdering(root, pos) ==
    IF is_ancestor(root.pos, pos) THEN "Equal"
    ELSE IF end(root.pos) <= start(pos) THEN "Less"
    ELSE "Greater"

\* slice::binary_search_by over rs (0-based left/right as in the library);
\* the 1-based index of the match, 0 for Err.
RECURSIVE binary_search_by(_, _, _, _)
binary_search_by(rs, pos, left, right) ==
    IF left < right
    THEN LET mid == left + ((right - left) \div 2)
             cmp == RootOrdering(rs[mid + 1], pos)
         IN  IF cmp = "Equal" THEN mid + 1
             ELSE IF cmp = "Less" THEN binary_search_by(rs, pos, mid + 1, right)
             ELSE binary_search_by(rs, pos, left, mid)
    ELSE 0

\* derive_key for id x on roots rs, keys ks and appending root ar:
\* ok = FALSE is the unwrap() of a failed search.
derive_key(rs, ks, ar, x) ==
    LET pos == leaf_position(x)
    IN  IF x >= ks
        THEN [ok |-> TRUE, key |-> Node_derive(ar, pos)]
        ELSE LET index == binary_search_by(rs, pos, 0, Len(rs))
             IN  IF index = 0
                 THEN [ok |-> FALSE, key |-> NoKey]
                 ELSE [ok |-> TRUE, key |-> Node_derive(rs[index], pos)]

derive_key_immutable(x) ==
    IF cached_keys[x] # NoKey
    THEN [ok |-> TRUE, key |-> cached_keys[x]]
    ELSE derive_key(roots, keys, appending_root, x)

\* Mutant of derive_on: derive never looks into the cache.
derive_on_uncached(f, x) ==
    LET r == derive_key(f.roots, f.keys, f.appending_root, x)
    IN  [ok |-> r.ok, key |-> r.key, hit |-> FALSE]

\* What Khf::derive returns for id x when the forest's fields are f: the
\* cached key if there is one (hit), else derive_key.
derive_on(f, x) ==
    IF f.cached_keys[x] # NoKey
    THEN [ok |-> TRUE, key |-> f.cached_keys[x], hit |-> TRUE]
    ELSE LET r == derive_key(f.roots, f.keys, f.appending_root, x)
         IN  [ok |-> r.ok, key |-> r.key, hit |-> FALSE]

\* The ids of S in ascending order (BTreeSet iteration order).
RECURSIVE SortedSeq(_)
SortedSeq(S) ==
    IF S = {} THEN <<>>
    ELSE LET m == CHOOSE a \in S : \A b \in S : a <= b
         IN  <<m>> \o SortedSeq(S \ {m})

\* The loop of updated_key_ranges over the sorted ids ls, with the run
\* [s, s + leaves) open.
RECURSIVE RangesLoop(_, _, _, _)
RangesLoop(ls, s, prev, leaves) ==
    IF ls = <<>> THEN <<<<s, s + leaves>>>>
    ELSE IF Head(ls) = prev + 1
    THEN RangesLoop(Tail(ls), s, Head(ls), leaves + 1)
    ELSE <<<<s, s + leaves>>>> \o RangesLoop(Tail(ls), Head(ls), Head(ls), 1)

\* Mutant of updated_key_ranges: every run is one id too long.
updated_key_ranges_wide(S) ==
    IF S = {} THEN <<>>
    ELSE LET ls == SortedSeq(S)
         IN  RangesLoop(Tail(ls), Head(ls), Head(ls), 2)

updated_key_ranges(S) ==
    IF S = {} THEN <<>>
    ELSE LET ls == SortedSeq(S)
         IN  RangesLoop(Tail(ls), Head(ls), Head(ls), 1)

Panic == [ok |-> FALSE, roots |-> <<>>]

\* replace_keys, last step: rest is self.roots after the drain of the kept
\* roots, head the kept roots followed by the coverage cut so far.  The root
\* at update_end is cut on its right when the replaced range ends inside it.
replace_keys_finish(head, rest, update_end, level, e) ==
    IF update_end > Len(rest) THEN Panic   \* self.roots[update_end - 1]
    ELSE [ok |-> TRUE,
          roots |-> head
                    \o (IF /\ e < end(rest[Len(rest)].pos)
                           /\ end(rest[update_end].pos) # e
                        THEN Node_coverage(rest[update_end], level, e,
                                           end(rest[update_end].pos))
                        ELSE <<>>)
                    \o SubSeq(rest, update_end + 1, Len(rest))]

\* "Find the last root affected by the update": 1-based update_end.
replace_keys_update_end(rest, e) ==
    IF e < end(rest[Len(rest)].pos)
    THEN IF position(rest, e, TRUE) = 0 THEN Len(rest) + 1
         ELSE position(rest, e, TRUE)
    ELSE Len(rest)

\* Mutant of replace_keys_from: the part of the first affected root left of
\* the replaced range is dropped instead of being kept.
replace_keys_from_no_left(r1, update_start, level, s, e, root) ==
    replace_keys_finish(
        SubSeq(r1, 1, update_start - 1)
        \o Node_coverage(root, level, s, e),
        SubSeq(r1, update_start, Len(r1)),
        replace_keys_update_end(SubSeq(r1, update_start, Len(r1)), e),
        level, e)

\* replace_keys from "Find the first root affected by the update" on, with
\* r1 the fragmented root list and update_start the 1-based index found.
replace_keys_from(r1, update_start, level, s, e, root) ==
    replace_keys_finish(
        SubSeq(r1, 1, update_start - 1)
        \o (IF start(r1[update_start].pos) # s
            THEN Node_coverage(r1[update_start], level,
                               start(r1[update_start].pos), s)
            ELSE <<>>)
        \o Node_coverage(root, level, s, e),
        SubSeq(r1, update_start, Len(r1)),
        replace_keys_update_end(SubSeq(r1, update_start, Len(r1)), e),
        level, e)

\* position(..).unwrap_or(self.roots.len() - 1), 1-based.
replace_keys_update_start(r1, s) ==
    IF position(r1, s, FALSE) = 0 THEN Len(r1) ELSE position(r1, s, FALSE)

replace_keys_fragmented(r1, level, s, e, root) ==
    IF r1 = <<>> THEN Panic   \* self.roots.len() - 1 on an empty list
    ELSE replace_keys_from(r1, replace_keys_update_start(r1, s), level, s, e, root)

\* Mutant of replace_keys: fragmenting a consolidated forest keeps the (0,0)
\* root in front of its fragments.
replace_keys_keeps_root(rs, inflight, level, s, e, root) ==
    IF level = 0 THEN [ok |-> TRUE, roots |-> <<root>>]
    ELSE replace_keys_fragmented(
             IF IsConsolidated(rs)
             THEN <<rs[1]>> \o Node_coverage(rs[1], level, 0, Max(inflight, e))
             ELSE rs,
             level, s, e, root)

\* replace_keys on the root list rs with in_flight_keys = inflight:
\* replaces [s, e) by the coverage of root at the given level.
replace_keys(rs, inflight, level, s, e, root) ==
    IF level = 0 THEN [ok |-> TRUE, roots |-> <<root>>]
    ELSE replace_keys_fragmented(
             IF IsConsolidated(rs)
             THEN Node_coverage(rs[1], level, 0, Max(inflight, e))
             ELSE rs,
             level, s, e, root)

\* The loop over updated_key_ranges in commit: every run is replaced by the
\* coverage of its own freshly drawn root (seeds seed, seed + 1, ...).
\* r is the forest after the replacements made so far.
RECURSIVE ReplaceRuns(_, _, _, _)
ReplaceRuns(r, inflight, runs, seed) ==
    IF ~r.ok THEN Panic
    ELSE IF runs = <<>> THEN r
    ELSE ReplaceRuns(replace_keys(r.roots, inflight, DEFAULT_ROOT_LEVEL,
                                  Head(runs)[1], Head(runs)[2], Node_with_rng(seed)),
                     inflight, Tail(runs), seed + 1)

\* res of commit: (id, derive_key_immutable(id)) for the ids of S, ascending.
RECURSIVE PairsOf(_)
PairsOf(ls) ==
    IF ls = <<>> THEN <<>>
    ELSE <<<<Head(ls), derive_key_immutable(Head(ls)).key>>>> \o PairsOf(Tail(ls))

CommitRes(S) ==
    [ok |-> \A x \in S : derive_key_immutable(x).ok, res |-> PairsOf(SortedSeq(S))]

\* The branch of commit taken: "zero", "full", "grow", "full_trunc",
\* "trunc_consolidated", "trunc".
CommitBranch ==
    LET kept == {k \in updated_keys : k < in_flight_keys}
    IN  IF in_flight_keys = 0 THEN "zero"
        ELSE IF in_flight_keys >= keys
        THEN IF Cardinality(updated_keys) = in_flight_keys THEN "full" ELSE "grow"
        ELSE IF Cardinality(kept) = in_flight_keys THEN "full_trunc"
        ELSE IF is_consolidated THEN "trunc_consolidated"
        ELSE "trunc"

CommitPanic == [ok |-> FALSE, roots |-> <<>>, res |-> <<>>, draws |-> 0]

\* What a branch of commit yields: cr is its res, r the root list it built
\* and draws the number of seeds it drew.
CommitYield(cr, r, draws) ==
    IF cr.ok /\ r.ok
    THEN [ok |-> TRUE, roots |-> r.roots, res |-> cr.res, draws |-> draws]
    ELSE CommitPanic

\* Mutant of CommitTruncate: the root holding the cut is kept whole.
CommitTruncate_whole(index) ==
    IF index = 0 THEN Panic
    ELSE [ok |-> TRUE, roots |-> SubSeq(roots, 1, index)]

\* The truncate branch on a forest that is not consolidated: the root at
\* index (1-based, 0 for the failed unwrap) is cut down to in_flight_keys.
CommitTruncate(index) ==
    IF index = 0 THEN Panic
    ELSE [ok |-> TRUE,
          roots |-> SubSeq(roots, 1, index - 1)
                    \o Node_coverage(roots[index], DEFAULT_ROOT_LEVEL,
                                     start(roots[index].pos), in_flight_keys)]

\* Mutant of CommitRoots: the growing branch appends but does not replace
\* the runs of updated ids.
CommitRoots_append_only(branch) ==
    IF branch \in {"zero", "full", "full_trunc"}
    THEN replace_keys(roots, in_flight_keys, 0, 0, 0, Node_with_rng(rng))
    ELSE IF branch = "grow"
    THEN replace_keys(roots, in_flight_keys, DEFAULT_ROOT_LEVEL,
                      keys, in_flight_keys, appending_root)
    ELSE IF branch = "trunc_consolidated"
    THEN [ok |-> TRUE,
          roots |-> Node_coverage(roots[1], DEFAULT_ROOT_LEVEL, 0, in_flight_keys)]
    ELSE CommitTruncate(position(roots, in_flight_keys, FALSE))

\* The root list a branch of commit builds.
CommitRoots(branch) ==
    IF branch \in {"zero", "full", "full_trunc"}
    THEN replace_keys(roots, in_flight_keys, 0, 0, 0, Node_with_rng(rng))
    ELSE IF branch = "grow"
    THEN ReplaceRuns(replace_keys(roots, in_flight_keys, DEFAULT_ROOT_LEVEL,
                                  keys, in_flight_keys, appending_root),
                     in_flight_keys, updated_key_ranges(updated_keys), rng)
    ELSE IF branch = "trunc_consolidated"
    THEN [ok |-> TRUE,
          roots |-> Node_coverage(roots[1], DEFAULT_ROOT_LEVEL, 0, in_flight_keys)]
    ELSE CommitTruncate(position(roots, in_flight_keys, FALSE))

\* The number of seeds a branch of commit draws before the appending root.
CommitDraws(branch) ==
    IF branch \in {"zero", "full", "full_trunc"} THEN 1
    ELSE IF branch = "grow" THEN Len(updated_key_ranges(updated_keys))
    ELSE 0

CommitBody(branch) ==
    CommitYield(CommitRes(IF branch \in {"zero", "full", "grow"}
                          THEN updated_keys
                          ELSE {k \in updated_keys : k < in_flight_keys}),
                CommitRoots(branch), CommitDraws(branch))

\* The body of commit up to "Clear out our cache": the new root list, res,
\* and the number of seeds drawn so far (the next draw is the appending root).
CommitOutcome == CommitBody(CommitBranch)

NoCache == [x \in KeyIds |-> NoKey]

\* The forest's fields, as a record (the state a call starts from).
Fields ==
    [appending_root |-> appending_root, in_flight_keys |-> in_flight_keys,
     updated_keys |-> updated_keys, roots |-> roots, keys |-> keys,
     cached_keys |-> cached_keys, rng |-> rng]

derive(x) == derive_on(Fields, x)

NoTrunc == [was |-> FALSE, n |-> 0, pre |-> <<>>]

NoPrev == [op |-> "none", arg |-> <<>>]

\* The history record of a call.  pre is the fields the call started from,
\* prev remembers an update that came right before the call, and trunc a
\* truncate that came right before it, with the fields that truncate
\* started from.
Call(op, arg, ret, ok) ==
    [op |-> op, arg |-> arg, ret |-> ret, ok |-> ok, pre |-> Fields,
     prev |-> IF last.op = "update" THEN [op |-> last.op, arg |-> last.arg]
              ELSE NoPrev,
     trunc |-> IF last.op = "truncate"
               THEN [was |-> TRUE, n |-> last.arg[1], pre |-> last.pre]
               ELSE NoTrunc]

\* A call that panics ends the run; the fields are left as they were.
PanicStep(op, arg) ==
    /\ panicked' = TRUE
    /\ last' = Call(op, arg, <<>>, FALSE)
    /\ UNCHANGED <<appending_root, in_flight_keys, updated_keys, roots, keys,
                   cached_keys, rng, epoch_ret>>

\* ---------------------------------------------------------------- actions
\* derive (and the derive at the end of update): the cached value, or
\* derive_key and insert into the cache.
DeriveApply(op, x, r) ==
    /\ panicked' = ~r.ok
    /\ in_flight_keys' = IF ~r.hit /\ x >= keys
                         THEN Max(in_flight_keys, x + 1)
                         ELSE in_flight_keys
    /\ cached_keys' = IF r.ok THEN [cached_keys EXCEPT ![x] = r.key]
                      ELSE cached_keys
    /\ last' = Call(op, <<x>>, r.key, r.ok)
    /\ epoch_ret' = IF r.ok /\ epoch_ret[x] = NoKey
                    THEN [epoch_ret EXCEPT ![x] = r.key]
                    ELSE epoch_ret
    /\ UNCHANGED <<appending_root, roots, keys, rng>>

DeriveBody(op, x) == DeriveApply(op, x, derive(x))

\* A run makes at most n calls and ends at a panic.
Budget(n) ==
    /\ ~panicked
    /\ calls < n
    /\ calls' = calls + 1

\* Mutant of DeriveCore: derive marks the id as updated, like update.
DeriveCore_marks(x) ==
    /\ updated_keys' = updated_keys \cup {x}
    /\ DeriveBody("derive", x)
    /\ UNCHANGED consolidations

DeriveCore(x) ==
    /\ DeriveBody("derive", x)
    /\ UNCHANGED <<updated_keys, consolidations>>

\* Mutant of UpdateCore: update derives the key but does not queue the id.
UpdateCore_forgets(x) ==
    /\ DeriveBody("update", x)
    /\ UNCHANGED <<updated_keys, consolidations>>

UpdateCore(x) ==
    /\ updated_keys' = updated_keys \cup {x}
    /\ DeriveBody("update", x)
    /\ UNCHANGED consolidations

\* Mutant of TruncateCore: truncate cuts keys at once instead of at the
\* next commit.
TruncateCore_eager(n) ==
    /\ in_flight_keys' = n
    /\ keys' = IF n < keys THEN n ELSE keys
    /\ last' = Call("truncate", <<n>>, <<>>, TRUE)
    /\ UNCHANGED <<appending_root, updated_keys, roots, cached_keys, rng,
                   panicked, consolidations, epoch_ret>>

TruncateCore(n) ==
    /\ in_flight_keys' = n
    /\ last' = Call("truncate", <<n>>, <<>>, TRUE)
    /\ UNCHANGED <<appending_root, updated_keys, roots, keys, cached_keys, rng,
                   panicked, consolidations, epoch_ret>>

\* Mutant of id_range: the range includes its end.
id_range_inclusive(a, b) == [i \in 1 .. (b - a + 1) |-> a + i - 1]

\* (a..b).into_iter().collect(): the ids a, a+1, ..., b-1.
id_range(a, b) == [i \in 1 .. (b - a) |-> a + i - 1]

\* Mutant of ConsolidateApply: the ranged forms clear updated_keys too.
ConsolidateApply_clears(n, mech, level, a, b, clear, r) ==
    /\ Budget(n)
    /\ consolidations < MaxConsolidations
    /\ consolidations' = consolidations + 1
    /\ IF r.ok
       THEN /\ roots' = r.roots
            /\ rng' = rng + 1
            /\ updated_keys' = {}
            /\ last' = Call("consolidate", <<mech, level, a, b>>, id_range(a, b), TRUE)
            /\ UNCHANGED <<appending_root, in_flight_keys, keys, cached_keys,
                           panicked, epoch_ret>>
       ELSE PanicStep("consolidate", <<mech, level, a, b>>)
    /\ UNCHANGED <<snap, image, topology, iter>>

\* consolidate_leveled / consolidate_ranged_leveled: affected = a .. b-1,
\* replace_keys with a fresh root, then unmark.  Leveled clears
\* updated_keys, the ranged forms remove the affected ids.
ConsolidateApply(n, mech, level, a, b, clear, r) ==
    /\ Budget(n)
    /\ consolidations < MaxConsolidations
    /\ consolidations' = consolidations + 1
    /\ IF r.ok
       THEN /\ roots' = r.roots
            /\ rng' = rng + 1
            /\ updated_keys' = IF clear THEN {} ELSE updated_keys \ (a .. (b - 1))
            /\ last' = Call("consolidate", <<mech, level, a, b>>, id_range(a, b), TRUE)
            /\ UNCHANGED <<appending_root, in_flight_keys, keys, cached_keys,
                           panicked, epoch_ret>>
       ELSE PanicStep("consolidate", <<mech, level, a, b>>)
    /\ UNCHANGED <<snap, image, topology, iter>>

ConsolidateBody(n, mech, level, a, b, clear) ==
    ConsolidateApply(n, mech, level, a, b, clear,
                     replace_keys(roots, in_flight_keys, level, a, b,
                                  Node_with_rng(rng)))

consolidate_leveled(n, mech, level) ==
    ConsolidateBody(n, mech, level, 0, keys, TRUE)

consolidate_ranged_leveled(n, mech, level, a, b) ==
    ConsolidateBody(n, mech, level, a, b, FALSE)

consolidate_full(n) == consolidate_leveled(n, "Full", 0)

consolidate_ranged(n, a, b) ==
    consolidate_ranged_leveled(n, "Ranged", DEFAULT_ROOT_LEVEL, a, b)

ConsolidateFull == consolidate_full(MaxCalls)

ConsolidateLeveled(level) == consolidate_leveled(MaxCalls, "Leveled", level)

ConsolidateRanged(a, b) == consolidate_ranged(MaxCalls, a, b)

ConsolidateRangedLeveled(level, a, b) ==
    consolidate_ranged_leveled(MaxCalls, "RangedLeveled", level, a, b)

\* Mutant of CommitApply: the appending root of the ending epoch is kept.
CommitApply_same_root(c) ==
    /\ IF c.ok
       THEN /\ roots' = c.roots
            /\ cached_keys' = NoCache
            /\ rng' = rng + c.draws
            /\ keys' = in_flight_keys
            /\ updated_keys' = {}
            /\ epoch_ret' = NoCache
            /\ last' = Call("commit", <<>>, c.res, TRUE)
            /\ UNCHANGED <<appending_root, in_flight_keys, panicked>>
       ELSE PanicStep("commit", <<>>)
    /\ UNCHANGED consolidations

\* commit from "Clear out our cache" on, c the outcome of its branch.
CommitApply(c) ==
    /\ IF c.ok
       THEN /\ roots' = c.roots
            /\ cached_keys' = NoCache
            /\ appending_root' = Node_with_rng(rng + c.draws)
            /\ rng' = rng + c.draws + 1
            /\ keys' = in_flight_keys
            /\ updated_keys' = {}
            /\ epoch_ret' = NoCache
            /\ last' = Call("commit", <<>>, c.res, TRUE)
            /\ UNCHANGED <<in_flight_keys, panicked>>
       ELSE PanicStep("commit", <<>>)
    /\ UNCHANGED consolidations

\* The snapshots after a commit with outcome c: an id in the returned list
\* loses its snapshot, the others count the commit.
CommitSnap(c) ==
    [y \in KeyIds |->
        IF ~c.ok \/ snap[y] = NoSnap THEN snap[y]
        ELSE IF \E i \in 1 .. Len(c.res) : c.res[i][1] = y THEN NoSnap
        ELSE [snap[y] EXCEPT !.commits = @ + 1]]

\* commit; snap changes only in the runs of RunSpec.
CommitStep(c, counted) ==
    /\ CommitApply(c)
    /\ snap' = IF counted THEN CommitSnap(c) ELSE snap

CommitCore(counted) == CommitStep(CommitOutcome, counted)

Derive(x) ==
    Budget(MaxCalls) /\ DeriveCore(x) /\ UNCHANGED <<snap, image, topology, iter>>

Update(x) ==
    Budget(MaxCalls) /\ UpdateCore(x) /\ UNCHANGED <<snap, image, topology, iter>>

Commit == Budget(MaxCalls) /\ CommitCore(FALSE) /\ UNCHANGED <<image, topology, iter>>

Truncate(n) ==
    Budget(MaxCalls) /\ TruncateCore(n) /\ UNCHANGED <<snap, image, topology, iter>>

\* Runs whose only consolidate mechanism is Full, one call longer than the
\* runs of Spec.
EpochCalls == MaxCalls + 1

EpochDerive(x) ==
    Budget(EpochCalls) /\ DeriveCore(x) /\ UNCHANGED <<snap, image, topology, iter>>

EpochUpdate(x) ==
    Budget(EpochCalls) /\ UpdateCore(x) /\ UNCHANGED <<snap, image, topology, iter>>

EpochTruncate(n) ==
    Budget(EpochCalls) /\ TruncateCore(n) /\ UNCHANGED <<snap, image, topology, iter>>

EpochCommit == Budget(EpochCalls) /\ CommitCore(FALSE) /\ UNCHANGED <<image, topology, iter>>

EpochConsolidateFull == consolidate_full(EpochCalls)

\* Runs of update, truncate, commit and consolidate(Ranged), one call longer
\* than the runs of Spec.
RangedCalls == MaxCalls + 1

RangedUpdate(x) ==
    Budget(RangedCalls) /\ UpdateCore(x) /\ UNCHANGED <<snap, image, topology, iter>>

RangedTruncate(n) ==
    Budget(RangedCalls) /\ TruncateCore(n) /\ UNCHANGED <<snap, image, topology, iter>>

RangedCommit == Budget(RangedCalls) /\ CommitCore(FALSE) /\ UNCHANGED <<image, topology, iter>>

RangedConsolidate(a, b) == consolidate_ranged(RangedCalls, a, b)

\* Runs made of derive, update and commit only (the random_commit test),
\* two calls longer than the runs of Spec.  snap[y] is the key the first
\* derive(y) returned since y was last in a commit's returned list, beyond
\* tells whether y was >= keys then, commits counts the commits since.
RunCalls == MaxCalls + 2

\* The snapshots after derive(x) returned r: the first derive of x is kept.
DeriveSnap(x, r) ==
    IF r.ok /\ snap[x] = NoSnap
    THEN [snap EXCEPT ![x] = [key |-> r.key, beyond |-> x >= keys, commits |-> 0]]
    ELSE snap

RunDerive(x) ==
    /\ Budget(RunCalls)
    /\ DeriveCore(x)
    /\ snap' = DeriveSnap(x, derive(x))
    /\ UNCHANGED <<image, topology, iter>>

RunUpdate(x) ==
    Budget(RunCalls) /\ UpdateCore(x) /\ UNCHANGED <<snap, image, topology, iter>>

RunCommit == Budget(RunCalls) /\ CommitCore(TRUE) /\ UNCHANGED <<image, topology, iter>>

\* Runs in which the forest is serialized once, called, deserialized from
\* the bytes and called again with the same calls.
PersistCalls == MaxCalls + 1

\* Number of calls made between serializing the forest and loading it back.
MaxScript == 2

NoImage == [stage |-> "none", bytes |-> <<>>, base |-> 0, script |-> <<>>,
            replay |-> <<>>]

\* derive(Serialize): the fields not marked serde(skip).  The topology is
\* written too and is the same for every forest here.
Serialize(f) ==
    [appending_root |-> f.appending_root, roots |-> f.roots, keys |-> f.keys]

\* derive(Deserialize): the fields of the bytes; the fields marked
\* serde(skip) are Default::default().
Deserialize(bytes) ==
    [appending_root |-> bytes.appending_root, in_flight_keys |-> 0,
     updated_keys |-> {}, roots |-> bytes.roots, keys |-> bytes.keys,
     cached_keys |-> NoCache]

\* A key as an observer compares it across the two runs: keys from seeds
\* drawn since base are random in both runs and compared by position only.
Blind(key, base) ==
    IF key.seed >= base THEN [seed |-> -2, path |-> key.path] ELSE key

\* What a caller observes of a call that left the history record l and the
\* fields f: what it returned, fragmentation(), is_consolidated(), keys and
\* the key derive would return for every id.
Observed(op, base, l, f) ==
    [ok |-> l.ok,
     ret |-> IF ~l.ok THEN <<>>
             ELSE IF op = "commit"
             THEN [i \in 1 .. Len(l.ret) |->
                      <<l.ret[i][1], Blind(l.ret[i][2], base)>>]
             ELSE Blind(l.ret, base),
     fragmentation |-> Len(f.roots),
     is_consolidated |-> IsConsolidated(f.roots),
     keys |-> f.keys,
     values |-> [x \in KeyIds |-> Blind(derive_on(f, x).key, base)]]

\* Between serializing and loading at most MaxScript calls are made; after
\* loading, the calls made are those calls again, in order.
Replayable(op, arg) ==
    /\ image.stage = "recording" => Len(image.script) < MaxScript
    /\ image.stage = "replaying" =>
           /\ Len(image.replay) < Len(image.script)
           /\ image.script[Len(image.replay) + 1].op = op
           /\ image.script[Len(image.replay) + 1].arg = arg

\* The observation of the call just made is recorded.
Track(op, arg) ==
    image' =
        IF image.stage = "recording"
        THEN [image EXCEPT !.script =
                 Append(@, [op |-> op, arg |-> arg,
                            obs |-> Observed(op, image.base, last', Fields')])]
        ELSE IF image.stage = "replaying"
        THEN [image EXCEPT !.replay =
                 Append(@, Observed(op, image.base, last', Fields'))]
        ELSE image

PersistDerive(x) ==
    /\ Budget(PersistCalls)
    /\ Replayable("derive", <<x>>)
    /\ DeriveCore(x)
    /\ Track("derive", <<x>>)
    /\ UNCHANGED <<snap, topology, iter>>

PersistUpdate(x) ==
    /\ Budget(PersistCalls)
    /\ Replayable("update", <<x>>)
    /\ UpdateCore(x)
    /\ Track("update", <<x>>)
    /\ UNCHANGED <<snap, topology, iter>>

PersistCommit ==
    /\ Budget(PersistCalls)
    /\ Replayable("commit", <<>>)
    /\ CommitCore(FALSE)
    /\ Track("commit", <<>>)
    /\ UNCHANGED <<topology, iter>>

\* The forest is serialized; it goes on being used.
Persist ==
    /\ ~panicked
    /\ image.stage = "none"
    /\ image' = [stage |-> "recording", bytes |-> Serialize(Fields),
                 base |-> rng, script |-> <<>>, replay |-> <<>>]
    /\ UNCHANGED <<appending_root, in_flight_keys, updated_keys, roots, keys,
                   cached_keys, rng, panicked, calls, consolidations, last,
                   epoch_ret, snap, topology, iter>>

\* The forest is replaced by the one deserialized from the bytes.
LoadApply(f) ==
    /\ appending_root' = f.appending_root
    /\ in_flight_keys' = f.in_flight_keys
    /\ updated_keys' = f.updated_keys
    /\ roots' = f.roots
    /\ keys' = f.keys
    /\ cached_keys' = f.cached_keys
    /\ epoch_ret' = NoCache
    /\ last' = Call("load", <<>>, <<>>, TRUE)
    /\ image' = [image EXCEPT !.stage = "replaying", !.base = rng]
    /\ UNCHANGED <<rng, panicked, calls, consolidations, snap, topology, iter>>

Load ==
    /\ ~panicked
    /\ image.stage = "recording"
    /\ image.script # <<>>
    /\ LoadApply(Deserialize(image.bytes))

\* No iterator in use.  Beside the iterator's fields, first remembers the start
\* it was made with, out the positions it yielded, steps the passes of the
\* loop of next() made since next() last returned, and done that next()
\* returned None.
NoIter == [level |-> 0, start |-> 0, end |-> 0, state |-> <<"None", 0>>,
          first |-> 0, out |-> <<>>, steps |-> 0, done |-> FALSE]

Levels == 0 .. (height - 1)

\* Levels handed to RangedLeveled (Ranged covers DEFAULT_ROOT_LEVEL).
RangedLevels == {0, height - 1}

Init ==
    /\ appending_root = Node_with_rng(0)
    /\ in_flight_keys = 0
    /\ updated_keys = {}
    /\ roots = <<Node_with_rng(1)>>
    /\ keys = 0
    /\ cached_keys = NoCache
    /\ rng = 2
    /\ panicked = FALSE
    /\ calls = 0
    /\ consolidations = 0
    /\ last = [op |-> "new", arg |-> <<>>, ret |-> <<>>, ok |-> TRUE,
               pre |-> <<>>, prev |-> NoPrev,
               trunc |-> NoTrunc]
    /\ epoch_ret = NoCache
    /\ snap = [x \in KeyIds |-> NoSnap]
    /\ image = NoImage
    /\ topology = Topology_new(Fanouts)
    /\ iter = NoIter

Next ==
    \/ \E x \in KeyIds : Derive(x)
    \/ \E x \in KeyIds : Update(x)
    \/ \E n \in 0 .. MaxKey : Truncate(n)
    \/ ConsolidateFull
    \/ \E level \in Levels : ConsolidateLeveled(level)
    \/ \E a \in 0 .. MaxKey : \E b \in a .. MaxKey : ConsolidateRanged(a, b)
    \/ \E level \in RangedLevels : \E a \in 0 .. MaxKey : \E b \in a .. MaxKey :
           ConsolidateRangedLeveled(level, a, b)
    \/ Commit

Spec == Init /\ [][Next]_vars

EpochNext ==
    \/ \E x \in KeyIds : EpochDerive(x)
    \/ \E x \in KeyIds : EpochUpdate(x)
    \/ \E n \in 0 .. MaxKey : EpochTruncate(n)
    \/ EpochConsolidateFull
    \/ EpochCommit

EpochSpec == Init /\ [][EpochNext]_vars

RunNext ==
    \/ \E x \in KeyIds : RunDerive(x)
    \/ \E x \in KeyIds : RunUpdate(x)
    \/ RunCommit

RunSpec == Init /\ [][RunNext]_vars

RangedNext ==
    \/ \E x \in KeyIds : RangedUpdate(x)
    \/ \E n \in 0 .. MaxKey : RangedTruncate(n)
    \/ \E a \in 0 .. MaxKey : \E b \in a .. MaxKey : RangedConsolidate(a, b)
    \/ RangedCommit

RangedSpec == Init /\ [][RangedNext]_vars

PersistNext ==
    \/ \E x \in KeyIds : PersistDerive(x)
    \/ \E x \in KeyIds : PersistUpdate(x)
    \/ PersistCommit
    \/ Persist
    \/ Load

PersistSpec == Init /\ [][PersistNext]_vars


\* ----------------------------------------------------------------- claims
IsPrefix(p, q) == Len(p) <= Len(q) /\ SubSeq(q, 1, Len(p)) = p

\* A party holding node can recompute key v: the node's key is v or one of
\* the keys v was hashed from.
CanRecompute(node, v) == node.key.seed = v.seed /\ IsPrefix(node.key.path, v.path)

HeldNodes == {roots[i] : i \in 1 .. Len(roots)} \cup {appending_root}

RetIds == {last.ret[i][1] : i \in 1 .. Len(last.ret)}

Committed == last.op = "commit" /\ last.ok

Consolidated(mech) == last.op = "consolidate" /\ last.ok /\ last.arg[1] = mech

\* The id of the update that came right before the last call, if any.
JustUpdated == IF last.prev.op = "update" THEN {last.prev.arg[1]} ELSE {}

\* C1: after update(x) followed by commit(), no node of the committed state
\* (a root or the appending root) carries the seed of the key derive(x)
\* returned before the commit together with a position on its derivation
\* chain, so none can recompute that key.
C1_Revocation ==
    Committed =>
        \A x \in JustUpdated : \A node \in HeldNodes :
            ~CanRecompute(node, derive_on(last.pre, x).key)

\* C2: after update(x) followed by commit(), derive(x) comes from a seed
\* drawn during that commit and differs from the key derive(x) returned
\* before it; the same for every id in the list the commit returned.
C2_UpdateRevocation ==
    Committed =>
        \A x \in JustUpdated \cup RetIds :
            /\ derive(x).ok
            /\ derive(x).key.seed >= last.pre.rng
            /\ derive(x).key # derive_on(last.pre, x).key

\* C3: after a commit, every id x < keys that is not in the returned list
\* has the derive(x) it had immediately before the commit.
C3_CommitStability ==
    Committed =>
        \A x \in KeyIds :
            (x \notin RetIds /\ x < keys) =>
                /\ derive(x).ok
                /\ derive(x).key = derive_on(last.pre, x).key

\* C4: in a run of derive, update and commit calls only, derive(y) returns
\* the key an earlier derive(y) returned as long as no commit in between
\* had y in its returned list, also across commits that append y.
C4_RandomCommitStability ==
    (last.op = "derive" /\ last.ok) => last.ret = snap[last.arg[1]].key

\* derive(y) after two commits that replaced two other runs, y appended
\* by the first of them.
C4_Witness ==
    /\ last.op = "derive"
    /\ last.ok
    /\ snap[last.arg[1]].commits >= 2
    /\ snap[last.arg[1]].beyond
    /\ \E i, j \in 1 .. Len(roots) :
           /\ roots[i].key.seed # snap[last.arg[1]].key.seed
           /\ roots[j].key.seed # snap[last.arg[1]].key.seed
           /\ roots[i].key.seed # roots[j].key.seed

\* C5: a commit with in_flight_keys = m >= keys and no pending update in
\* [keys, m) leaves derive(x) unchanged for every x in [keys, m).
C5_AppendIdentity ==
    (/\ Committed
     /\ last.pre.in_flight_keys >= last.pre.keys
     /\ \A x \in last.pre.updated_keys :
            ~(last.pre.keys <= x /\ x < last.pre.in_flight_keys)) =>
        \A x \in KeyIds :
            (last.pre.keys <= x /\ x < last.pre.in_flight_keys) =>
                derive(x).key = derive_on(last.pre, x).key

\* The leaf ranges of rs are sorted, pairwise disjoint and their union is
\* [0, n).
Covers(rs, n) ==
    /\ Len(rs) > 0
    /\ start(rs[1].pos) = 0
    /\ end(rs[Len(rs)].pos) = n
    /\ \A i \in 1 .. Len(rs) : start(rs[i].pos) < end(rs[i].pos)
    /\ \A i \in 1 .. (Len(rs) - 1) : end(rs[i].pos) = start(rs[i + 1].pos)

\* C6: after every call the forest is consolidated or its roots' leaf
\* ranges are sorted, disjoint and cover exactly [0, keys).
C6_Coverage == last.ok => (is_consolidated \/ Covers(roots, keys))

\* C7: every derive(x) / update(x) returns the key the first derive or
\* update of x in the epoch returned.
C7_EpochDeterminism ==
    (last.op \in {"derive", "update"} /\ last.ok) =>
        last.ret = epoch_ret[last.arg[1]]

\* A derive of an id already derived in the epoch, after the roots were
\* replaced by a consolidate or the id was marked updated.
C7_Witness ==
    /\ last.op = "derive"
    /\ last.ok
    /\ last.pre.cached_keys[last.arg[1]] # NoKey
    /\ consolidations > 0
    /\ derive_key(roots, keys, appending_root, last.arg[1]).key # last.ret

\* C8: after consolidate(Full): one root, consolidated, no pending
\* updates, keys unchanged, and the returned list is 0 .. keys-1.
C8_ConsolidateFull ==
    Consolidated("Full") =>
        /\ fragmentation = 1
        /\ is_consolidated
        /\ updated_keys = {}
        /\ keys = last.pre.keys
        /\ last.ret = [i \in 1 .. keys |-> i - 1]

\* consolidate(Full) on a fragmented forest with updates pending.
C8_Witness ==
    /\ Consolidated("Full")
    /\ keys > 0
    /\ Len(last.pre.roots) > 1
    /\ last.pre.updated_keys # {}

\* C9: right after a consolidate, derive(x) for every affected id x < keys
\* comes from the root drawn by that consolidate.
C9_ConsolidationRekeys ==
    (last.op = "consolidate" /\ last.ok) =>
        \A i \in 1 .. Len(last.ret) :
            last.ret[i] < keys =>
                /\ derive(last.ret[i]).ok
                /\ derive(last.ret[i]).key.seed = last.pre.rng

\* C10: truncate(n) followed by commit leaves keys = n, and every x < n
\* with no pending update has the derive(x) it had before the truncate.
C10_Truncate ==
    (Committed /\ last.trunc.was) =>
        /\ keys = last.trunc.n
        /\ \A x \in KeyIds :
               (x < keys /\ x \notin last.trunc.pre.updated_keys) =>
                   derive(x).key = derive_on(last.trunc.pre, x).key

\* C11: when truncate(n) is followed by commit, the list the commit returns
\* holds no id >= n.
C11_TruncatedUpdatesDropped ==
    (Committed /\ last.trunc.was) => \A x \in RetIds : x < last.trunc.n

\* A root of the committed state that was not drawn by the last commit.
KeptRoots == {i \in 1 .. Len(roots) : roots[i].key.seed < last.pre.rng}

\* The last call is a commit that came right after truncate(n) with n < keys.
Shrunk == Committed /\ last.trunc.was /\ last.trunc.n < last.pre.keys

\* C12: after truncate(n) with n < keys followed by commit, for every x in
\* [n, old keys) no kept root covers x or is an ancestor of leaf x, and
\* derive(x) comes from the appending root the commit drew and differs from
\* the key derive(x) returned before the commit.
C12_TruncatedKeysVanish ==
    Shrunk =>
        \A x \in KeyIds :
            (last.trunc.n <= x /\ x < last.pre.keys) =>
                /\ \A i \in KeptRoots :
                       /\ ~(start(roots[i].pos) <= x /\ x < end(roots[i].pos))
                       /\ ~is_ancestor(roots[i].pos, leaf_position(x))
                /\ derive(x).ok
                /\ derive(x).key.seed = appending_root.key.seed
                /\ appending_root.key.seed >= last.pre.rng
                /\ derive(x).key # derive_on(last.pre, x).key

\* A commit that cut a fragmented forest down inside one of its roots and
\* kept roots of the old forest.
C12_Witness ==
    /\ Shrunk
    /\ last.trunc.n > 0
    /\ Len(last.pre.roots) > 1
    /\ KeptRoots # {}
    /\ \E i \in 1 .. Len(last.pre.roots) :
           /\ start(last.pre.roots[i].pos) < last.trunc.n
           /\ last.trunc.n < end(last.pre.roots[i].pos)

\* The committed state (roots, keys), the pending updates and the appending
\* root are the ones the last call started from.
FrameKept ==
    /\ roots = last.pre.roots
    /\ keys = last.pre.keys
    /\ appending_root = last.pre.appending_root
    /\ fragmentation = Len(last.pre.roots)
    /\ is_consolidated = IsConsolidated(last.pre.roots)

\* C13: derive(x) leaves roots (hence fragmentation and is_consolidated),
\* keys and updated_keys unchanged.
C13_DeriveReadOnly ==
    (last.op = "derive" /\ last.ok) =>
        FrameKept /\ updated_keys = last.pre.updated_keys

\* A derive past the end of a fragmented forest with updates pending, which
\* raised in_flight_keys.
C13_Witness ==
    /\ last.op = "derive"
    /\ last.ok
    /\ last.arg[1] >= keys
    /\ keys > 0
    /\ in_flight_keys > last.pre.in_flight_keys
    /\ updated_keys # {}
    /\ Len(roots) > 1

\* C14: truncate(n) sets in_flight_keys to n and leaves roots, keys and
\* updated_keys unchanged; derive(x) for x in [n, keys), as it stands right
\* after the truncate and as the next call returns it, is the key it was
\* before the truncate.
C14_TruncateDeferred ==
    /\ last.op = "truncate" =>
           /\ in_flight_keys = last.arg[1]
           /\ FrameKept
           /\ updated_keys = last.pre.updated_keys
           /\ \A x \in KeyIds :
                  (last.arg[1] <= x /\ x < keys) =>
                      /\ derive(x).ok = derive_on(last.pre, x).ok
                      /\ derive(x).key = derive_on(last.pre, x).key
    /\ (/\ last.op = "derive"
        /\ last.ok
        /\ last.trunc.was
        /\ last.trunc.n <= last.arg[1]
        /\ last.arg[1] < keys) =>
           last.ret = derive_on(last.trunc.pre, last.arg[1]).key

\* The first derive in its epoch of a truncated id of a fragmented forest,
\* right after the truncate.
C14_Witness ==
    /\ last.op = "derive"
    /\ last.ok
    /\ last.trunc.was
    /\ last.trunc.n <= last.arg[1]
    /\ last.arg[1] < keys
    /\ last.pre.cached_keys[last.arg[1]] = NoKey
    /\ Len(roots) > 1

\* C15: update(x) adds x to updated_keys, returns the key derive(x) returns
\* in the same epoch (before and after it), and leaves roots, keys and
\* fragmentation unchanged.
C15_UpdateQueued ==
    (last.op = "update" /\ last.ok) =>
        /\ updated_keys = last.pre.updated_keys \cup {last.arg[1]}
        /\ FrameKept
        /\ last.ret = derive_on(last.pre, last.arg[1]).key
        /\ derive(last.arg[1]).ok
        /\ derive(last.arg[1]).key = last.ret

\* update of a committed id of a fragmented forest that was already derived
\* in the epoch and was not pending.
C15_Witness ==
    /\ last.op = "update"
    /\ last.ok
    /\ last.arg[1] < keys
    /\ last.arg[1] \notin last.pre.updated_keys
    /\ last.pre.cached_keys[last.arg[1]] # NoKey
    /\ Len(roots) > 1

\* C16: every derive(x) or update(x) with x >= keys returns with
\* in_flight_keys >= x + 1.
C16_DerivePastEndMarksIntent ==
    (last.op \in {"derive", "update"} /\ last.ok /\ last.arg[1] >= keys) =>
        in_flight_keys >= last.arg[1] + 1

\* The ids a commit has to return: the ids pending when it was called,
\* without the ids >= in_flight_keys when the domain shrinks.
Pending ==
    IF last.pre.in_flight_keys < last.pre.keys
    THEN {k \in last.pre.updated_keys : k < last.pre.in_flight_keys}
    ELSE last.pre.updated_keys

\* C17: commit returns exactly the pending ids, each once, in ascending
\* order, each paired with the key derive returned for it before the commit.
C17_CommitResult ==
    Committed =>
        /\ RetIds = Pending
        /\ Len(last.ret) = Cardinality(Pending)
        /\ \A i \in 1 .. (Len(last.ret) - 1) : last.ret[i][1] < last.ret[i + 1][1]
        /\ \A i \in 1 .. Len(last.ret) :
               last.ret[i][2] = derive_on(last.pre, last.ret[i][1]).key

\* C18: after every commit keys = in_flight_keys, updated_keys and the key
\* cache are empty, and appending_root is a (0,0) node with a seed drawn by
\* the commit, different from the appending root of the epoch that ended.
C18_CommitPostState ==
    Committed =>
        /\ keys = in_flight_keys
        /\ updated_keys = {}
        /\ cached_keys = NoCache
        /\ appending_root = Node_with_rng(appending_root.key.seed)
        /\ appending_root.key.seed >= last.pre.rng
        /\ appending_root # last.pre.appending_root

\* A commit that changed keys, with updates pending and keys cached.
C18_Witness ==
    /\ Committed
    /\ last.pre.keys > 0
    /\ keys # last.pre.keys
    /\ last.pre.updated_keys # {}
    /\ last.pre.cached_keys # NoCache

\* C19: a commit that runs with in_flight_keys >= keys leaves a single
\* (0,0) root drawn by the commit exactly when every id of
\* [0, in_flight_keys) was in updated_keys.
C19_FullReplacement ==
    (Committed /\ last.pre.in_flight_keys >= last.pre.keys) =>
        ((roots = <<Node_with_rng(last.pre.rng)>>)
            <=> (\A x \in 0 .. (last.pre.in_flight_keys - 1) :
                     x \in last.pre.updated_keys))

\* The last call is a commit that took the fragmenting path (khf.rs 390-412).
Fragmented ==
    /\ Committed
    /\ last.pre.in_flight_keys # 0
    /\ last.pre.in_flight_keys >= last.pre.keys
    /\ Cardinality(last.pre.updated_keys) # last.pre.in_flight_keys

\* The maximal contiguous runs [s, e) of ids that were pending at the commit.
Runs == updated_key_ranges(last.pre.updated_keys)

\* The roots (indices) whose leaf range meets run i.
RootsOf(i) ==
    {j \in 1 .. Len(roots) :
        start(roots[j].pos) < Runs[i][2] /\ Runs[i][1] < end(roots[j].pos)}

\* C20: after a commit on the fragmenting path, the roots covering one run
\* of updated ids lie inside the run and share one seed drawn by the commit,
\* two runs have different seeds, and no root outside the runs carries a
\* seed of a run.
C20_PerRunFreshRoots ==
    Fragmented =>
        /\ \A i \in 1 .. Len(Runs) :
               /\ RootsOf(i) # {}
               /\ \A j \in RootsOf(i) :
                      /\ Runs[i][1] <= start(roots[j].pos)
                      /\ end(roots[j].pos) <= Runs[i][2]
                      /\ roots[j].key.seed >= last.pre.rng
                      /\ \A k \in RootsOf(i) : roots[k].key.seed = roots[j].key.seed
        /\ \A i, k \in 1 .. Len(Runs) :
               i # k => \A j \in RootsOf(i) : \A l \in RootsOf(k) :
                            roots[j].key.seed # roots[l].key.seed
        /\ \A l \in 1 .. Len(roots) :
               (\A i \in 1 .. Len(Runs) : l \notin RootsOf(i)) =>
                   \A i \in 1 .. Len(Runs) : \A j \in RootsOf(i) :
                       roots[l].key.seed # roots[j].key.seed

\* The 1-based index of the root the binary search of derive_key finds for
\* id x, 0 when the search fails.
locate(x) == binary_search_by(roots, leaf_position(x), 0, Len(roots))

\* C21: for every x < keys the binary search over roots finds a root, that
\* root is an ancestor of leaf_position(x), and no other root of the list is.
C21_LocateSound ==
    \A x \in KeyIds :
        x < keys =>
            /\ locate(x) # 0
            /\ is_ancestor(roots[locate(x)].pos, leaf_position(x))
            /\ \A j \in 1 .. Len(roots) :
                   is_ancestor(roots[j].pos, leaf_position(x)) => j = locate(x)

\* C22: between calls every id in updated_keys is smaller than
\* max(keys, in_flight_keys).
C22_UpdatedWithinDomain ==
    \A x \in updated_keys : x < Max(keys, in_flight_keys)

\* C23: every call of derive, update, truncate, commit and consolidate
\* (level < height, start <= end) returns normally, from every reachable
\* state.
C23_Total == last.ok /\ ~panicked

\* C24: the forest deserialized from a serialized forest F behaves like F:
\* the same calls made on both are observed alike, call by call (what
\* derive and commit return, fragmentation, is_consolidated, keys and the
\* key of every id).
C24_RoundTrip ==
    \A i \in 1 .. Len(image.replay) : image.replay[i] = image.script[i].obs

\* The last call is a ranged consolidate (Ranged or RangedLeveled).
RangedConsolidated == Consolidated("Ranged") \/ Consolidated("RangedLeveled")

\* C25: after a ranged consolidate of [a, b) with b greater than keys, the
\* domain reaches b: every id x in [old keys, b) is below keys, and the key
\* derive(x) returns comes from a root of the list drawn by the consolidate.
C25_RangedExtends ==
    (RangedConsolidated /\ last.arg[4] > last.pre.keys) =>
        /\ keys >= last.arg[4]
        /\ \A x \in KeyIds :
               (last.pre.keys <= x /\ x < last.arg[4] /\ last.arg[3] <= x) =>
                   /\ locate(x) # 0
                   /\ roots[locate(x)].key.seed = last.pre.rng
                   /\ derive(x).key = Node_derive(roots[locate(x)], leaf_position(x))

\* C26: a ranged consolidate of [a, b) returns the ids a, a+1, ..., b-1,
\* removes exactly those ids from updated_keys, and leaves keys and
\* in_flight_keys unchanged.
C26_RangedBookkeeping ==
    RangedConsolidated =>
        /\ Len(last.ret) = last.arg[4] - last.arg[3]
        /\ \A i \in 1 .. Len(last.ret) : last.ret[i] = last.arg[3] + i - 1
        /\ updated_keys =
               {x \in last.pre.updated_keys : x < last.arg[3] \/ x >= last.arg[4]}
        /\ keys = last.pre.keys
        /\ in_flight_keys = last.pre.in_flight_keys

\* A ranged consolidate of a range inside the in-flight domain, with updates
\* pending both inside and outside the range.
C26_Witness ==
    /\ RangedConsolidated
    /\ last.arg[3] < last.arg[4]
    /\ last.arg[4] <= in_flight_keys
    /\ updated_keys # {}
    /\ updated_keys # last.pre.updated_keys

\* C27: after consolidate(Leveled(L)) with 1 <= L <= height - 1 on a forest
\* with keys > 0, the root list is the coverage of [0, keys) at level L of
\* the root the consolidate drew: every root has level >= L and that seed,
\* and the ranges partition [0, keys).
C27_LeveledConsolidation ==
    (/\ Consolidated("Leveled")
     /\ last.arg[2] >= 1
     /\ last.arg[2] <= height - 1
     /\ last.pre.keys > 0) =>
        /\ roots = Node_coverage(Node_with_rng(last.pre.rng), last.arg[2], 0, keys)
        /\ \A i \in 1 .. Len(roots) :
               /\ roots[i].pos[1] >= last.arg[2]
               /\ roots[i].key.seed = last.pre.rng
        /\ Covers(roots, keys)

\* The ids with a key in the cache of the fields f.
CachedIds(f) == {x \in KeyIds : f.cached_keys[x] # NoKey}

\* The fields f are those of a forest made by Khf::new on which the ids of
\* derived were derived or updated, the ids of updated updated, and no
\* other call made: no seed drawn since new, in_flight_keys the largest id
\* plus one.
FreshWith(f, derived, updated, inflight) ==
    /\ f.rng = 2
    /\ f.keys = 0
    /\ f.roots = <<Node_with_rng(1)>>
    /\ f.appending_root = Node_with_rng(0)
    /\ f.in_flight_keys = inflight
    /\ f.updated_keys = updated
    /\ CachedIds(f) = derived

\* The last call is the commit of the scenario: it came after derive(4),
\* update(1), update(2) on a fresh forest.
ScenarioCommitted == Committed /\ FreshWith(last.pre, {1, 2, 4}, {1, 2}, 5)

\* C28: on a fresh forest with fanouts [2, 2], derive(4), update(1) and
\* update(2) each leave fragmentation() = 1; the commit that follows returns
\* the ids [1, 2], leaves fragmentation() = 5, and derive(4) returns the key
\* it returned before the commit.
C28_ScenarioDeriveThenUpdate ==
    /\ (/\ last.op = "derive" /\ last.arg = <<4>>
        /\ FreshWith(last.pre, {}, {}, 0)) => (last.ok /\ fragmentation = 1)
    /\ (/\ last.op = "update" /\ last.arg = <<1>>
        /\ FreshWith(last.pre, {4}, {}, 5)) => (last.ok /\ fragmentation = 1)
    /\ (/\ last.op = "update" /\ last.arg = <<2>>
        /\ FreshWith(last.pre, {1, 4}, {1}, 5)) => (last.ok /\ fragmentation = 1)
    /\ (/\ last.op = "commit"
        /\ FreshWith(last.pre, {1, 2, 4}, {1, 2}, 5)) =>
           /\ last.ok
           /\ Len(last.ret) = 2
           /\ last.ret[1][1] = 1
           /\ last.ret[2][1] = 2
           /\ fragmentation = 5
           /\ derive(4).ok
           /\ derive(4).key = derive_on(last.pre, 4).key

\* The scenario ran to its commit, and update(2) came right before it.
C28_Witness ==
    /\ ScenarioCommitted
    /\ last.prev.op = "update"
    /\ last.prev.arg = <<2>>

\* C29 as stated: after the scenario's commit, derive(1) and derive(2)
\* return the keys update(1) and update(2) returned.
C29_ScenarioKeysKept ==
    ScenarioCommitted =>
        /\ derive(1).key = derive_on(last.pre, 1).key
        /\ derive(2).key = derive_on(last.pre, 2).key

\* C29, corrected: the scenario's commit returns (1, k1), (2, k2) with k1, k2
\* the keys update(1) and update(2) returned; after it derive(1) and
\* derive(2) return keys of one seed drawn by the commit, different from k1
\* and k2.
C29_ScenarioKeysRevoked ==
    ScenarioCommitted =>
        /\ last.ret = <<<<1, derive_on(last.pre, 1).key>>,
                        <<2, derive_on(last.pre, 2).key>>>>
        /\ last.pre.cached_keys[1] = derive_on(last.pre, 1).key
        /\ last.pre.cached_keys[2] = derive_on(last.pre, 2).key
        /\ \A x \in {1, 2} :
               /\ derive(x).ok
               /\ derive(x).key # derive_on(last.pre, x).key
               /\ derive(x).key.seed >= last.pre.rng
        /\ derive(1).key.seed = derive(2).key.seed

\* The scenario ran to its commit, and update(1) and update(2) were its
\* last updates before it.
C29_Witness ==
    /\ ScenarioCommitted
    /\ last.prev.op = "update"
    /\ last.prev.arg[1] \in {1, 2}
    /\ fragmentation = 5

\* C30: if the root list has more than one entry, no entry has position
\* (0,0).
C30_SoleWholeRoot ==
    Len(roots) > 1 => \A i \in 1 .. Len(roots) : roots[i].pos # <<0, 0>>

\* A commit or consolidate that fragmented a consolidated forest into
\* several roots.
C30_Witness ==
    /\ last.op \in {"commit", "consolidate"}
    /\ last.ok
    /\ IsConsolidated(last.pre.roots)
    /\ last.pre.keys > 0
    /\ Len(roots) > 2

\* ------------------------------------------------- the topology on its own
\* Topology::new is handed 1 .. MaxDepth fanouts, each 2 .. MaxFanout.
MaxDepth == 3
MaxFanout == 3
\* Leaves, node indices and range bounds handed to the iterators: 0 .. MaxLeaf.
MaxLeaf == 9

FanoutLists == UNION {[1 .. n -> 2 .. MaxFanout] : n \in 1 .. MaxDepth}

Positions == {<<0, 0>>} \cup ((1 .. (height - 1)) \X (0 .. MaxLeaf))

fanout(level) ==
    IF level = 0 THEN 0
    ELSE IF level = height THEN 1
    ELSE descendants(level) \div descendants(level + 1)

\* Coverage iterator (the target level is fixed at 1), run to exhaustion.
RECURSIVE CoverageFrom(_, _, _, _)
CoverageFrom(phase, lvl, s, e) ==
    IF s > e THEN <<>>
    ELSE IF phase = "Pre" THEN
        IF lvl < 2
        THEN CoverageFrom("Intra", lvl, s, e)
        ELSE IF s % descendants(lvl - 1) # 0 /\ s + descendants(lvl) <= e
        THEN <<<<lvl, offset(s, lvl)>>>>
             \o CoverageFrom("Pre", lvl, s + descendants(lvl), e)
        ELSE CoverageFrom("Pre", lvl - 1, s, e)
    ELSE IF phase = "Intra" THEN
        IF s + descendants(1) <= e
        THEN <<<<1, offset(s, 1)>>>>
             \o CoverageFrom("Intra", lvl, s + descendants(1), e)
        ELSE CoverageFrom("Post", 2, s, e)
    ELSE
        IF lvl >= height
        THEN <<>>
        ELSE IF s + descendants(lvl) <= e
        THEN <<<<lvl, offset(s, lvl)>>>>
             \o CoverageFrom("Post", lvl, s + descendants(lvl), e)
        ELSE CoverageFrom("Post", lvl + 1, s, e)

Coverage(s, e) == CoverageFrom("Pre", height - 1, s, e)

\* The forest's variables, which the calls below leave alone.
khf == <<appending_root, in_flight_keys, updated_keys, roots, keys,
         cached_keys, rng, panicked, calls, consolidations, epoch_ret, snap,
         image>>

\* The history record of a call that involves no forest.
Pure(op, arg, ret) ==
    [op |-> op, arg |-> arg, ret |-> ret, ok |-> TRUE, pre |-> <<>>,
     prev |-> NoPrev, trunc |-> NoTrunc]

\* The functions are pure and a topology never changes once built: a run
\* builds a topology and makes one call on it.
Idle == last.op = "new"

LeveledCoverage_new(level, s, e) ==
    /\ iter' = [level |-> level, start |-> s, end |-> e,
                state |-> <<"Pre", height - 1>>,
                first |-> s, out |-> <<>>, steps |-> 0, done |-> FALSE]
    /\ last' = Pure("coverage", <<level, s, e>>, <<>>)
    /\ UNCHANGED <<topology, khf>>

\* next() returns Some(pos) and advances start by n.
Yield(it, pos, n) ==
    [it EXCEPT !.start = @ + n, !.out = Append(@, pos), !.steps = 0]

\* Mutant of Goto: the state is left as it was.
Goto_stay(it, st) == [it EXCEPT !.steps = @ + 1]

\* next() changes state and goes round its loop again.
Goto(it, st) == [it EXCEPT !.state = st, !.steps = @ + 1]

\* next() returns None.
Exhaust(it) == [it EXCEPT !.done = TRUE, !.steps = 0]

\* Mutant of LeveledCoverage_pass: Pre does not stop at a node aligned to the
\* level above.
LeveledCoverage_pass_greedy(it) ==
    LET lvl == it.state[2]
    IN  IF it.steps = 0 /\ it.start > it.end THEN Exhaust(it)
        ELSE IF it.state[1] = "Pre" THEN
            IF lvl < it.level + 1
            THEN Goto(it, <<"Intra", 0>>)
            ELSE IF it.start + descendants(lvl) <= it.end
            THEN Yield(it, <<lvl, offset(it.start, lvl)>>, descendants(lvl))
            ELSE Goto(it, <<"Pre", lvl - 1>>)
        ELSE IF it.state[1] = "Intra" THEN
            IF it.start + descendants(it.level) <= it.end
            THEN Yield(it, <<it.level, offset(it.start, it.level)>>,
                       descendants(it.level))
            ELSE Goto(it, <<"Post", it.level + 1>>)
        ELSE
            IF lvl >= height
            THEN Exhaust(it)
            ELSE IF it.start + descendants(lvl) <= it.end
            THEN Yield(it, <<lvl, offset(it.start, lvl)>>, descendants(lvl))
            ELSE Goto(it, <<"Post", lvl + 1>>)

\* Mutant of LeveledCoverage_pass: Pre does not test that the node fits.
LeveledCoverage_pass_overrun(it) ==
    LET lvl == it.state[2]
    IN  IF it.steps = 0 /\ it.start > it.end THEN Exhaust(it)
        ELSE IF it.state[1] = "Pre" THEN
            IF lvl < it.level + 1
            THEN Goto(it, <<"Intra", 0>>)
            ELSE IF it.start % descendants(lvl - 1) # 0
            THEN Yield(it, <<lvl, offset(it.start, lvl)>>, descendants(lvl))
            ELSE Goto(it, <<"Pre", lvl - 1>>)
        ELSE IF it.state[1] = "Intra" THEN
            IF it.start + descendants(it.level) <= it.end
            THEN Yield(it, <<it.level, offset(it.start, it.level)>>,
                       descendants(it.level))
            ELSE Goto(it, <<"Post", it.level + 1>>)
        ELSE
            IF lvl >= height
            THEN Exhaust(it)
            ELSE IF it.start + descendants(lvl) <= it.end
            THEN Yield(it, <<lvl, offset(it.start, lvl)>>, descendants(lvl))
            ELSE Goto(it, <<"Post", lvl + 1>>)

\* One pass of the loop of LeveledCoverage::next (with the test next() makes
\* before entering the loop): the iterator after it.
LeveledCoverage_pass(it) ==
    LET lvl == it.state[2]
    IN  IF it.steps = 0 /\ it.start > it.end THEN Exhaust(it)
        ELSE IF it.state[1] = "Pre" THEN
            IF lvl < it.level + 1
            THEN Goto(it, <<"Intra", 0>>)
            ELSE IF /\ it.start % descendants(lvl - 1) # 0
                    /\ it.start + descendants(lvl) <= it.end
            THEN Yield(it, <<lvl, offset(it.start, lvl)>>, descendants(lvl))
            ELSE Goto(it, <<"Pre", lvl - 1>>)
        ELSE IF it.state[1] = "Intra" THEN
            IF it.start + descendants(it.level) <= it.end
            THEN Yield(it, <<it.level, offset(it.start, it.level)>>,
                       descendants(it.level))
            ELSE Goto(it, <<"Post", it.level + 1>>)
        ELSE
            IF lvl >= height
            THEN Exhaust(it)
            ELSE IF it.start + descendants(lvl) <= it.end
            THEN Yield(it, <<lvl, offset(it.start, lvl)>>, descendants(lvl))
            ELSE Goto(it, <<"Post", lvl + 1>>)

LeveledCoverage_next ==
    /\ iter # NoIter
    /\ ~iter.done
    /\ iter' = LeveledCoverage_pass(iter)
    /\ UNCHANGED <<topology, khf, last>>

\* topology.coverage(start, end).collect()
CoverageCall(s, e) ==
    /\ iter' = NoIter
    /\ last' = Pure("Coverage", <<s, e>>, Coverage(s, e))
    /\ UNCHANGED <<topology, khf>>

\* topology.path(from, to).collect()
PathCall(from, to) ==
    /\ iter' = NoIter
    /\ last' = Pure("path", <<from, to>>, path(from, to))
    /\ UNCHANGED <<topology, khf>>

\* A node at position q holding a key drawn as seed 0.
NodeAt(q) == [pos |-> q, key |-> [seed |-> 0, path |-> <<>>]]

\* The leaf x under p is derived from the node at q, and from the fragment
\* of that node at p.
DeriveVia(q, p, x) ==
    /\ p = q \/ is_ancestor(q, p)
    /\ p = <<0, 0>> \/ (start(p) <= x /\ x < end(p))
    /\ iter' = NoIter
    /\ last' = Pure("fragment", <<q, p, x>>,
                    [direct |-> Node_derive(NodeAt(q), leaf_position(x)),
                     via |-> Node_derive(
                                 [pos |-> p, key |-> Node_derive(NodeAt(q), p)],
                                 leaf_position(x))])
    /\ UNCHANGED <<topology, khf>>

\* Topology::new(fanouts), for every fanout list within the bounds.
TopologyInit ==
    \E fs \in FanoutLists :
        /\ topology = Topology_new(fs)
        /\ iter = NoIter
        /\ last = Pure("new", <<fs>>, <<>>)
        /\ appending_root = Node_with_rng(0)
        /\ in_flight_keys = 0
        /\ updated_keys = {}
        /\ roots = <<Node_with_rng(1)>>
        /\ keys = 0
        /\ cached_keys = NoCache
        /\ rng = 2
        /\ panicked = FALSE
        /\ calls = 0
        /\ consolidations = 0
        /\ epoch_ret = NoCache
        /\ snap = [x \in KeyIds |-> NoSnap]
        /\ image = NoImage

\* One call is made on the topology; an iterator it makes is then run.
TopologyNext ==
    \/ Idle /\ \E level \in 1 .. (height - 1) : \E s \in 0 .. MaxLeaf :
           \E e \in 0 .. MaxLeaf : LeveledCoverage_new(level, s, e)
    \/ LeveledCoverage_next
    \/ Idle /\ \E s \in 0 .. MaxLeaf : \E e \in 0 .. MaxLeaf :
           CoverageCall(s, e)
    \/ Idle /\ \E from \in Positions : \E to \in Positions :
           PathCall(from, to)
    \/ Idle /\ \E q \in Positions : \E p \in Positions :
           \E x \in 0 .. MaxLeaf : DeriveVia(q, p, x)

TopologySpec == TopologyInit /\ [][TopologyNext]_vars

\* The loop that consumes an iterator keeps calling next().
TopologyLiveSpec == TopologySpec /\ WF_vars(LeveledCoverage_next)

\* ---------------------------------------------------------------- C35
\* C35 (topology geometry): Topology::new(fanouts), for a non-empty list of
\* fanouts each >= 2, builds descendants of length len(fanouts) + 2 with
\* descendants[0] = 0, descendants[1] the product of the fanouts and
\* descendants[H-1] = 1, strictly decreasing from level 1 to level H-1, each
\* entry an exact multiple of the next, and fanout(L) is the L-th fanout
\* handed in for 1 <= L < H-1.
C35_TopologyGeometry ==
    last.op = "new" =>
        LET fs == last.arg[1]
        IN  /\ Len(topology) = Len(fs) + 2
            /\ descendants(0) = 0
            /\ descendants(1) = SeqProduct(fs)
            /\ descendants(height - 1) = 1
            /\ \A L \in 1 .. (height - 2) :
                   /\ descendants(L) > descendants(L + 1)
                   /\ descendants(L) % descendants(L + 1) = 0
                   /\ fanout(L) = fs[L]

C35_Witness ==
    /\ last.op = "new"
    /\ Len(last.arg[1]) = MaxDepth
    /\ last.arg[1][1] # last.arg[1][2]

\* ---------------------------------------------------------------- C34
\* C34 (path iterator): for positions from, to with to.level > from.level,
\* path(from, to) yields exactly to.level - from.level positions, one per
\* level from.level+1 .. to.level in that order, each an ancestor of to or to
\* itself, the last one to; when to.level <= from.level it yields nothing.
C34_PathIterator ==
    last.op = "path" =>
        LET from == last.arg[1]
            to == last.arg[2]
            ps == last.ret
        IN  IF to[1] > from[1]
            THEN /\ Len(ps) = to[1] - from[1]
                 /\ \A i \in 1 .. Len(ps) :
                        /\ ps[i][1] = from[1] + i
                        /\ ps[i] = to \/ is_ancestor(ps[i], to)
                 /\ ps[Len(ps)] = to
            ELSE ps = <<>>

C34_Witness ==
    /\ last.op = "path"
    /\ last.arg[1] # <<0, 0>>
    /\ last.arg[2][1] >= last.arg[1][1] + 2
    /\ last.arg[2][2] > 0
    /\ Len(last.ret) >= 2

\* ---------------------------------------------------------------- C31
\* The positions ps, in order, tile [s, e): the first starts at s, each ends
\* where the next starts, the last ends at e (none when s = e).
Tiles(ps, s, e) ==
    IF ps = <<>> THEN s = e
    ELSE /\ start(ps[1]) = s
         /\ \A i \in 1 .. (Len(ps) - 1) : end(ps[i]) = start(ps[i + 1])
         /\ end(ps[Len(ps)]) = e

\* C31 (coverage partition): for a target level 1 <= level <= H-1 and
\* 0 <= start <= end, the positions the leveled coverage iterator yields all
\* have a level >= the target level and <= H-1, come in strictly increasing
\* start order, each starts where the iterator stood (it is aligned to its
\* level), and their leaf ranges are pairwise disjoint with union exactly
\* [start, end): nothing is yielded when start = end.  Collected, they are
\* the sequence Node::coverage maps over.
C31_CoveragePartition ==
    (iter.done /\ iter.first <= iter.end) =>
        /\ \A i \in 1 .. Len(iter.out) :
               /\ iter.out[i][1] >= iter.level
               /\ iter.out[i][1] <= height - 1
        /\ \A i \in 1 .. (Len(iter.out) - 1) :
               start(iter.out[i]) < start(iter.out[i + 1])
        /\ Tiles(iter.out, iter.first, iter.end)
        /\ iter.first = iter.end => iter.out = <<>>
        /\ iter.out = LeveledCoverage(iter.level, iter.first, iter.end)

C31_Witness ==
    /\ iter.done
    /\ iter.first > 0
    /\ iter.level >= 2
    /\ Len(iter.out) >= 3
    /\ \E i \in 1 .. Len(iter.out) : iter.out[i][1] # iter.out[1][1]

\* ---------------------------------------------------------------- C32
Least(S) == CHOOSE n \in S : \A m \in S : n <= m

\* The least number of tree positions of a level >= target whose leaf ranges
\* partition [s, e): the first of them, in start order, starts at s.
RECURSIVE MinTiles(_, _, _)
MinTiles(target, s, e) ==
    IF s >= e THEN 0
    ELSE 1 + Least({MinTiles(target, s + descendants(l), e) :
                       l \in {k \in target .. (height - 1) :
                                 /\ s % descendants(k) = 0
                                 /\ s + descendants(k) <= e}})

\* fanout-many consecutive positions of ps are the children of one parent
\* below the target level.
Mergeable(ps, target) ==
    \E i \in 1 .. Len(ps) :
        LET l == ps[i][1]
            n == IF l > target THEN fanout(l - 1) ELSE 0
        IN  /\ l > target
            /\ i + n - 1 <= Len(ps)
            /\ ps[i][2] % n = 0
            /\ \A j \in 0 .. (n - 1) : ps[i + j] = <<l, ps[i][2] + j>>

\* C32 (coverage minimality): for a target level >= 1 and a range
\* [start, end), no set of tree positions of a level >= the target level
\* whose leaf ranges partition [start, end) has fewer elements than the
\* sequence the coverage iterator yields, and no fanout-many consecutive
\* yielded siblings deeper than the target could be replaced by their parent.
C32_CoverageMinimal ==
    /\ (iter.done /\ iter.first <= iter.end) =>
           /\ Len(iter.out) = MinTiles(iter.level, iter.first, iter.end)
           /\ ~Mergeable(iter.out, iter.level)
    /\ (last.op = "Coverage" /\ last.arg[1] <= last.arg[2]) =>
           /\ Tiles(last.ret, last.arg[1], last.arg[2])
           /\ Len(last.ret) = MinTiles(1, last.arg[1], last.arg[2])
           /\ ~Mergeable(last.ret, 1)

C32_Witness ==
    /\ iter.done
    /\ \E i \in 1 .. Len(iter.out) : \E j \in 1 .. Len(iter.out) :
           \E k \in 1 .. Len(iter.out) :
               /\ i < j
               /\ j < k
               /\ iter.out[i][1] > iter.out[j][1]
               /\ iter.out[k][1] > iter.out[j][1]

\* ---------------------------------------------------------------- C33
\* Pre comes before Intra, Intra before Post.
PhaseRank(st) ==
    IF st[1] = "Pre" THEN 1 ELSE IF st[1] = "Intra" THEN 2
    ELSE IF st[1] = "Post" THEN 3 ELSE 0

\* A pass of next() never goes back: not to an earlier phase, not to a level
\* Pre has left behind, not to a level Post has left behind.
PhaseForward ==
    iter # NoIter =>
        /\ PhaseRank(iter'.state) >= PhaseRank(iter.state)
        /\ (iter.state[1] = "Pre" /\ iter'.state[1] = "Pre") =>
               iter'.state[2] <= iter.state[2]
        /\ (iter.state[1] = "Post" /\ iter'.state[1] = "Post") =>
               iter'.state[2] >= iter.state[2]

\* With start > end the first pass of next() returns None.
NoneAtOnce ==
    (iter # NoIter /\ ~iter.done /\ iter.start > iter.end) =>
        (iter'.done /\ iter'.out = <<>> /\ iter'.state = iter.state)

\* C33 (coverage termination): the Pre -> Intra -> Post state machine of the
\* coverage iterator never returns to an earlier phase, every call of next()
\* returns after finitely many passes of its loop (at most two per level),
\* and the iterator eventually returns None; with start > end it returns
\* None at once.
C33_CoverageTerminates ==
    /\ [](iter.steps <= 2 * height)
    /\ [][PhaseForward]_vars
    /\ [][NoneAtOnce]_vars
    /\ (iter # NoIter) ~> iter.done

C33_Witness ==
    /\ iter.done
    /\ iter.state = <<"Post", height>>
    /\ \E i \in 1 .. Len(iter.out) : \E j \in 1 .. Len(iter.out) :
           \E k \in 1 .. Len(iter.out) :
               /\ i < j
               /\ j < k
               /\ iter.out[i][1] > iter.level
               /\ iter.out[j][1] = iter.level
               /\ iter.out[k][1] > iter.level

\* ---------------------------------------------------------------- C36
\* C36 (fragmentation preserves values): for a node n, a position p that is
\* n.pos or a descendant of it and a leaf x under p, deriving x from the
\* fragment Node(p, n.derive(p)) gives the key that deriving x from n gives.
C36_FragmentPreservesValues ==
    last.op = "fragment" => last.ret.via = last.ret.direct

C36_Witness ==
    /\ last.op = "fragment"
    /\ last.arg[1] # <<0, 0>>
    /\ is_ancestor(last.arg[1], last.arg[2])
    /\ last.arg[2] # last.arg[1]
    /\ last.arg[2][1] < height - 1
    /\ last.arg[3] > start(last.arg[2])
    /\ Len(last.ret.via.path) >= 2

\* ---------------------------------------------------------------- C37
\* The key of the node is the hash chain over the ancestors of its position,
\* from level 1 down to the position: every derivation that led to it went
\* from a node to that node's position or to a descendant of it.  (Deriving
\* a position outside the source's subtree hashes a chain that holds a
\* position which is no ancestor of the target, or too few positions.)
Canonical(node) == node.key.path = path(<<0, 0>>, node.pos)

\* C37 (derivation stays inside the subtree): whenever the forest derives a
\* leaf key or builds a root by derivation, the target position is the
\* source node's position or a descendant of it: every root, every key
\* derive returns and every cached key is the hash chain over the ancestors
\* of its own position.
C37_DerivationInsideSubtree ==
    /\ \A i \in 1 .. Len(roots) : Canonical(roots[i])
    /\ \A x \in KeyIds :
           derive(x).ok =>
               Canonical([pos |-> leaf_position(x), key |-> derive(x).key])
    /\ \A x \in KeyIds :
           cached_keys[x] # NoKey =>
               Canonical([pos |-> leaf_position(x), key |-> cached_keys[x]])

\* ---------------------------------------------------------------- C38
\* A commit was called with nothing pending: no updated id, and as many keys
\* in flight as the forest provides (at least one).
EmptyCommit ==
    /\ last.op = "commit"
    /\ last.ok
    /\ last.pre.updated_keys = {}
    /\ last.pre.in_flight_keys = last.pre.keys
    /\ last.pre.keys > 0

\* C38 (an empty commit is a no-op on roots): a commit called with nothing
\* pending (updated_keys empty and in_flight_keys = keys > 0) leaves the root
\* list unchanged, and so fragmentation() and is_consolidated(): a
\* consolidated forest is still consolidated after it.
C38_EmptyCommitKeepsRoots ==
    EmptyCommit =>
        /\ roots = last.pre.roots
        /\ Len(roots) = Len(last.pre.roots)
        /\ IsConsolidated(roots) = IsConsolidated(last.pre.roots)

\* ---------------------------------------------------------------- C39
\* C39 (ranged consolidation frame): for a level L >= 0 and
\* 0 <= a <= b <= keys, consolidate(RangedLeveled(L, a, b)) changes only the
\* ids it reports: for every x < keys outside [a, b), the key computed from
\* the root list for x is the same before and after the call.
C39_RangedFrame ==
    (RangedConsolidated /\ last.arg[3] <= last.arg[4]
                        /\ last.arg[4] <= last.pre.keys) =>
        \A x \in KeyIds :
            (x < last.pre.keys /\ (x < last.arg[3] \/ x >= last.arg[4])) =>
                derive_key(roots, keys, appending_root, x)
                    = derive_key(last.pre.roots, last.pre.keys,
                                 last.pre.appending_root, x)

====
